---- MODULE Spec2Model ----
(***************************************************************************)
(* Casting Agency API: the authentication / authorization gate of          *)
(* src/auth.py (get_token_auth_header, verify_decode_jwt,                  *)
(* check_permissions, requires_auth) around the protected endpoints of     *)
(* src/app.py.                                                             *)
(*                                                                         *)
(* A request is handled by one slot.  The wrapper of requires_auth runs    *)
(* in steps: extract the token, check the configuration and fetch the key  *)
(* set, decode and verify the token, check the permission, call the        *)
(* endpoint.  Each step keeps its results in the locals of its own slot.   *)
(***************************************************************************)
EXTENDS Integers, Sequences, FiniteSets, TLC

VARIABLES
    AUTH0_DOMAIN,   \* src/auth.py:9, read once from the environment
    API_AUDIENCE,   \* src/auth.py:11, read once from the environment
    now,            \* the wall clock jwt.decode compares exp with
    pc,             \* per slot: position of the wrapper
    auth,           \* per slot: the Authorization header of the request
    permission,     \* per slot: the permission the endpoint was wrapped with
    args,           \* per slot: the original arguments of the endpoint
    token,          \* per slot: local of wrapper, result of get_token_auth_header
    jwks,           \* per slot: local of verify_decode_jwt, the fetched key set
    rsa_key,        \* per slot: local of verify_decode_jwt, the matched key
    payload,        \* per slot: local of wrapper, result of verify_decode_jwt
    vtime,          \* per slot: the clock value jwt.decode read
    outcome,        \* per slot: how the request ended
    calls,          \* per slot: number of times the endpoint function ran
    callargs,       \* per slot: the arguments the endpoint function received
    view,           \* per slot: the view function of the endpoint
    body,           \* per slot: the JSON body of the request
    response,       \* per slot: the JSON of the response of the view function
    dialect,        \* the database SQLALCHEMY_DATABASE_URI names
    actors,         \* table actors: id -> row
    movies,         \* table movies: id -> row
    actor_seq,      \* PostgreSQL: last value of the sequence of actors.id
    movie_seq,      \* PostgreSQL: last value of the sequence of movies.id
    actor_hwm,      \* history: the largest id table actors has given out
    movie_hwm       \* history: the largest id table movies has given out

vars == <<AUTH0_DOMAIN, API_AUDIENCE, now, pc, auth, permission, args, token,
          jwks, rsa_key, payload, vtime, outcome, calls, callargs, view, body,
          response, dialect, actors, movies, actor_seq, movie_seq, actor_hwm, movie_hwm>>

-----------------------------------------------------------------------------
(* Bounds *)

\* the clock runs from 1 to MaxTime
MaxTime == 3

-----------------------------------------------------------------------------
(* Strings.  A header value is a sequence of pieces; a piece is a maximal   *)
(* run of whitespace or a maximal run of other characters (a word).  A     *)
(* word that is a JWT carries what its three segments decode to.           *)

Word(s) == [txt |-> s, jwt |-> <<>>]

SP == Word(" ")

PList(items) == [kind |-> "list", val |-> items]
PAbsent == [kind |-> "absent", val |-> <<>>]
PStr(s) == [kind |-> "str", val |-> <<s>>]
PDict == [kind |-> "dict", val |-> <<>>]

Issuer(domain) == <<"https://", domain, "/">>

Jwt(kid, sig, alg, aud, iss, exp, perms) ==
    [txt |-> "jwt",
     jwt |-> <<[kid |-> kid, sig |-> sig, alg |-> alg,
                claims |-> [aud |-> aud, iss |-> iss, exp |-> exp,
                            permissions |-> perms]]>>]

\* str.lower() on the words the model uses
Lower(w) ==
    CASE w.txt \in {"Bearer", "BEARER", "bearer"} -> "bearer"
      [] w.txt = "Token" -> "token"
      [] w.txt = "Basic" -> "basic"
      [] OTHER -> w.txt

\* str.split(): the words between runs of whitespace
RECURSIVE Split(_)
Split(s) ==
    IF s = <<>> THEN <<>>
    ELSE IF Head(s) = SP THEN Split(Tail(s))
         ELSE <<Head(s)>> \o Split(Tail(s))

-----------------------------------------------------------------------------
(* Results of the gate's functions: a value, an AuthError, or another      *)
(* exception that is no AuthError.                                         *)

Ok(v) == [kind |-> "ok", code |-> "", description |-> "", status |-> 200, val |-> <<v>>]

\* class AuthError: error = {code, description}, status_code
AuthError(code, description, status) ==
    [kind |-> "AuthError", code |-> code, description |-> description,
     status |-> status, val |-> <<>>]

\* an exception of another class; Flask answers it with its 500 handler
Raise(cls) ==
    [kind |-> "Exception", code |-> cls, description |-> "", status |-> 500, val |-> <<>>]

NoHeader == [present |-> FALSE, val |-> <<>>]
Header(v) == [present |-> TRUE, val |-> v]

Range(s) == {s[i] : i \in 1..Len(s)}

-----------------------------------------------------------------------------
(* get_token_auth_header *)

\* mutant: the test for an absent header is left out
GetTokenAuthHeaderNoAbsentTest(a) ==
    IF ~a.present THEN Raise("AttributeError")
    ELSE LET parts == Split(a.val) IN
         IF parts = <<>>
         THEN Raise("IndexError")
         ELSE IF Lower(parts[1]) # "bearer"
         THEN AuthError("invalid_header", "Authorization header must start with Bearer.", 401)
         ELSE IF Len(parts) # 2
         THEN AuthError("invalid_header", "Authorization header must be Bearer token.", 401)
         ELSE Ok(parts[2])

GetTokenAuthHeader(a) ==
    IF ~a.present \/ a.val = <<>>
    THEN AuthError("authorization_header_missing", "Authorization header is expected.", 401)
    ELSE LET parts == Split(a.val) IN
         IF parts = <<>>
         THEN Raise("IndexError")
         ELSE IF Lower(parts[1]) # "bearer"
         THEN AuthError("invalid_header", "Authorization header must start with Bearer.", 401)
         ELSE IF Len(parts) = 1
         THEN AuthError("invalid_header", "Token not found.", 401)
         ELSE IF Len(parts) > 2
         THEN AuthError("invalid_header", "Authorization header must be Bearer token.", 401)
         ELSE Ok(parts[2])

-----------------------------------------------------------------------------
(* check_permissions *)

\* mutant: the membership test comes first, on whatever the claim holds
CheckPermissionsMembershipFirst(perm, pl) ==
    IF perm \notin Range(pl.permissions.val)
    THEN AuthError("unauthorized", "Permission not found.", 403)
    ELSE IF pl.permissions.kind \notin {"list", "str"}
    THEN AuthError("invalid_claims", "Permissions claim must be a list.", 400)
    ELSE Ok(TRUE)

CheckPermissions(perm, pl) ==
    LET permissions == IF pl.permissions.kind = "absent" THEN PList(<<>>)
                       ELSE pl.permissions
    IN  IF permissions.kind # "list"
        THEN AuthError("invalid_claims", "Permissions claim must be a list.", 400)
        ELSE IF perm \notin Range(permissions.val)
        THEN AuthError("unauthorized", "Permission not found.", 403)
        ELSE Ok(TRUE)

-----------------------------------------------------------------------------
(* verify_decode_jwt *)

ALGORITHMS == {"RS256"}

\* mutant: the audience is not looked at
ConfigMissingDomainOnly == AUTH0_DOMAIN = ""

ConfigMissing == AUTH0_DOMAIN = "" \/ API_AUDIENCE = ""

\* what requests.get(jwks_url, timeout=10).json() can give
RemoteKeys == <<[kty |-> "RSA", kid |-> "k1", use |-> "sig", n |-> "n1", e |-> "AQAB"],
                [kty |-> "RSA", kid |-> "k2", use |-> "sig", n |-> "n2", e |-> "AQAB"]>>

FetchResults ==
    { [kind |-> "dict", keys |-> RemoteKeys],      \* the published key set
      [kind |-> "dict", keys |-> <<>>],            \* a JSON object without "keys"
      [kind |-> "notdict", keys |-> <<>>],         \* JSON, but not an object
      [kind |-> "notjson", keys |-> <<>>],         \* .json() raises
      [kind |-> "neterr", keys |-> <<>>] }         \* requests.get raises

\* the scan of jwks["keys"]: the first entry with the token's kid, or {}
RECURSIVE FindKey(_, _)
FindKey(keys, kid) ==
    IF keys = <<>> THEN <<>>
    ELSE IF Head(keys).kid = kid THEN <<Head(keys)>>
         ELSE FindKey(Tail(keys), kid)

\* mutant: the signature is not verified
JwtDecodeUnverified(tok, key, t) ==
    LET j == tok.jwt[1] IN
    IF j.claims.exp < t THEN Raise("ExpiredSignatureError")
    ELSE IF j.claims.aud # API_AUDIENCE THEN Raise("JWTClaimsError")
    ELSE IF j.claims.iss # Issuer(AUTH0_DOMAIN) THEN Raise("JWTClaimsError")
    ELSE Ok(j.claims)

\* jose.jwt.decode(token, rsa_key, algorithms, audience, issuer) at time t:
\* the signature under an allowed algorithm, then the claims exp, aud, iss
JwtDecode(tok, key, t) ==
    LET j == tok.jwt[1] IN
    IF j.alg \notin ALGORITHMS THEN Raise("JWTError")
    ELSE IF j.sig # key.n THEN Raise("JWTError")
    ELSE IF j.claims.exp < t THEN Raise("ExpiredSignatureError")
    ELSE IF j.claims.aud # API_AUDIENCE THEN Raise("JWTClaimsError")
    ELSE IF j.claims.iss # Issuer(AUTH0_DOMAIN) THEN Raise("JWTClaimsError")
    ELSE Ok(j.claims)

\* mutant: no except clause for JWTClaimsError
DecodeOrAuthErrorNoClaimsClause(tok, key, t) ==
    LET res == JwtDecode(tok, key, t) IN
    IF res.kind = "ok" THEN res
    ELSE IF res.code = "ExpiredSignatureError"
    THEN AuthError("token_expired", "Token expired.", 401)
    ELSE AuthError("invalid_token", "Token is invalid.", 401)

\* the try/except around jwt.decode
DecodeOrAuthError(tok, key, t) ==
    LET res == JwtDecode(tok, key, t) IN
    IF res.kind = "ok" THEN res
    ELSE IF res.code = "ExpiredSignatureError"
    THEN AuthError("token_expired", "Token expired.", 401)
    ELSE IF res.code = "JWTClaimsError"
    THEN AuthError("invalid_claims", "Incorrect claims.", 401)
    ELSE AuthError("invalid_token", "Token is invalid.", 401)

-----------------------------------------------------------------------------
(* The store of src/models.py and the view functions of src/app.py.        *)
(* A table is a function from the ids of its rows to the rows.  A view     *)
(* function is given the table, the sequence of the table, the URL id and  *)
(* the JSON body; it returns the status, the JSON of the response, and the *)
(* table and sequence as committed when the request is over.               *)

\* the largest id a table gives out
MaxId == 2

\* a JSON value that int() is applied to: a number, or text that is none
JNum(n) == [num |-> TRUE, n |-> n]
JText == [num |-> FALSE, n |-> 0]

\* a date string, as the pieces between its "-"
DateStr(a, b, c) == <<JNum(a), JNum(b), JNum(c)>>

\* request.get_json() or {}: each key is absent (<<>>) or holds one value
NoBody == [name |-> <<>>, age |-> <<>>, gender |-> <<>>, title |-> <<>>,
           release_date |-> <<>>]

\* k in body
Has(bd, k) == bd[k] # <<>>

\* not body.get(k), for text: the key is absent or the text is empty
Truthy(bd, k) == Has(bd, k) /\ bd[k][1] # ""

\* not body.get(k), for a date string
TruthyDate(bd, k) == Has(bd, k) /\ bd[k][1] # <<>>

DaysIn(y, m) ==
    IF m \in {4, 6, 9, 11} THEN 30
    ELSE IF m # 2 THEN 31
    ELSE IF (y % 4 = 0 /\ y % 100 # 0) \/ y % 400 = 0 THEN 29
    ELSE 28

\* y, m, d = [int(x) for x in s.split("-")]; date(y, m, d)
ParseDate(s) ==
    IF Len(s) # 3 \/ \E i \in 1..Len(s) : ~s[i].num
    THEN [ok |-> FALSE, date |-> [y |-> 0, m |-> 0, d |-> 0]]
    ELSE LET y == s[1].n  m == s[2].n  d == s[3].n IN
         IF y \in 1..9999 /\ m \in 1..12 /\ d >= 1 /\ d <= DaysIn(y, m)
         THEN [ok |-> TRUE, date |-> [y |-> y, m |-> m, d |-> d]]
         ELSE [ok |-> FALSE, date |-> [y |-> 0, m |-> 0, d |-> 0]]

Largest(S) == CHOOSE x \in S : \A y \in S : y <= x

\* mutant: the id is the number of rows plus one
NextIdByCount(db, table, seq) == Cardinality(DOMAIN table) + 1

\* the id the database gives a new row of Column(Integer, primary_key=True):
\* SQLite one more than the largest id in the table, PostgreSQL the next
\* value of the sequence of the table
NextId(db, table, seq) ==
    IF db = "sqlite"
    THEN (IF DOMAIN table = {} THEN 1 ELSE Largest(DOMAIN table) + 1)
    ELSE seq + 1

NextSeq(db, seq) == IF db = "sqlite" THEN seq ELSE seq + 1

\* Actor.format / Movie.format: the row with its id
Format(table, id) == [id |-> id, row |-> table[id]]

RECURSIVE Ascending(_)
Ascending(S) ==
    IF S = {} THEN <<>>
    ELSE LET lo == CHOOSE x \in S : \A y \in S : x <= y
         IN  <<lo>> \o Ascending(S \ {lo})

\* query.order_by(id).all(), formatted
Listing(table) ==
    LET ids == Ascending(DOMAIN table) IN
    [i \in 1..Len(ids) |-> Format(table, ids[i])]

Put(table, id, row) == [i \in DOMAIN table \cup {id} |-> IF i = id THEN row ELSE table[i]]

Remove(table, id) == [i \in DOMAIN table \ {id} |-> table[i]]

\* what a view function leaves: a response (or an exception) and the store
Answer(status, key, id, items, table, seq) ==
    [raised |-> FALSE, status |-> status,
     json |-> [success |-> status < 400, key |-> key, id |-> id, items |-> items],
     table |-> table, seq |-> seq]

Failure(status, message, table, seq) ==
    [raised |-> FALSE, status |-> status,
     json |-> [success |-> FALSE, key |-> message, id |-> 0, items |-> <<>>],
     table |-> table, seq |-> seq]

\* an exception leaves the view function; nothing was committed
Crash(table, seq) ==
    [raised |-> TRUE, status |-> 500,
     json |-> [success |-> FALSE, key |-> "internal server error", id |-> 0, items |-> <<>>],
     table |-> table, seq |-> seq]

GetRows(key, table, seq) == Answer(200, key, 0, Listing(table), table, seq)

\* create_actor
CreateActor(db, table, seq, bd) ==
    IF ~Truthy(bd, "name") \/ ~Has(bd, "age") \/ ~Truthy(bd, "gender")
    THEN Failure(400, "Missing required actor fields", table, seq)
    ELSE IF ~bd.age[1].num THEN Crash(table, seq)
    ELSE LET id == NextId(db, table, seq)
             t2 == Put(table, id, [name |-> bd.name[1], age |-> bd.age[1].n,
                                   gender |-> bd.gender[1]])
         IN  Answer(201, "created", id, <<Format(t2, id)>>, t2, NextSeq(db, seq))

\* update_actor
UpdateActor(table, seq, id, bd) ==
    IF id \notin DOMAIN table
    THEN Failure(404, "resource not found", table, seq)
    ELSE LET a0 == table[id]
             a1 == IF Has(bd, "name") THEN [a0 EXCEPT !.name = bd.name[1]] ELSE a0
         IN  IF Has(bd, "age") /\ ~bd.age[1].num THEN Crash(table, seq)
             ELSE LET a2 == IF Has(bd, "age") THEN [a1 EXCEPT !.age = bd.age[1].n] ELSE a1
                      a3 == IF Has(bd, "gender") THEN [a2 EXCEPT !.gender = bd.gender[1]]
                            ELSE a2
                      t2 == Put(table, id, a3)
                  IN  Answer(200, "actor", 0, <<Format(t2, id)>>, t2, seq)

\* delete_actor, delete_movie
DeleteRow(table, seq, id) ==
    IF id \notin DOMAIN table
    THEN Failure(404, "resource not found", table, seq)
    ELSE Answer(200, "deleted", id, <<>>, Remove(table, id), seq)

\* create_movie
CreateMovie(db, table, seq, bd) ==
    IF ~Truthy(bd, "title") \/ ~TruthyDate(bd, "release_date")
    THEN Failure(400, "Missing required movie fields", table, seq)
    ELSE LET rd == ParseDate(bd.release_date[1]) IN
         IF ~rd.ok THEN Failure(400, "release_date must be YYYY-MM-DD", table, seq)
         ELSE LET id == NextId(db, table, seq)
                  t2 == Put(table, id, [title |-> bd.title[1], release_date |-> rd.date])
              IN  Answer(201, "created", id, <<Format(t2, id)>>, t2, NextSeq(db, seq))

\* mutant: the title is committed before the release_date is looked at
UpdateMovieTitleCommitted(table, seq, id, bd) ==
    IF id \notin DOMAIN table
    THEN Failure(404, "resource not found", table, seq)
    ELSE LET m0 == table[id]
             m1 == IF Has(bd, "title") THEN [m0 EXCEPT !.title = bd.title[1]] ELSE m0
             rd == IF Has(bd, "release_date") THEN ParseDate(bd.release_date[1])
                   ELSE [ok |-> TRUE, date |-> m0.release_date]
         IN  IF ~rd.ok
             THEN Failure(400, "release_date must be YYYY-MM-DD", Put(table, id, m1), seq)
             ELSE LET t2 == Put(table, id, [m1 EXCEPT !.release_date = rd.date])
                  IN  Answer(200, "movie", 0, <<Format(t2, id)>>, t2, seq)

\* update_movie: the title is set on the session's object; a release_date
\* that does not parse returns 400 before movie.update() commits, and the
\* session is dropped with the request
UpdateMovie(table, seq, id, bd) ==
    IF id \notin DOMAIN table
    THEN Failure(404, "resource not found", table, seq)
    ELSE LET m0 == table[id]
             m1 == IF Has(bd, "title") THEN [m0 EXCEPT !.title = bd.title[1]] ELSE m0
             rd == IF Has(bd, "release_date") THEN ParseDate(bd.release_date[1])
                   ELSE [ok |-> TRUE, date |-> m0.release_date]
         IN  IF ~rd.ok
             THEN Failure(400, "release_date must be YYYY-MM-DD", table, seq)
             ELSE LET t2 == Put(table, id, [m1 EXCEPT !.release_date = rd.date])
                  IN  Answer(200, "movie", 0, <<Format(t2, id)>>, t2, seq)

-----------------------------------------------------------------------------
(* Inputs: the environment, the tokens, the headers and the endpoints.     *)

GoodDomain == "casting.auth0.com"
GoodAudience == "casting"

ExpValues == {0, 2}

PermShapes ==
    { PAbsent, PList(<<>>), PList(<<"get:actors">>),
      PList(<<"get:actors", "patch:actors">>), PStr("get:actors"), PDict }

Good(perms) == Jwt("k1", "n1", "RS256", GoodAudience, Issuer(GoodDomain), 2, perms)

ClaimTokens ==
    { Jwt("k1", "n1", "RS256", a, i, x, PList(<<"get:actors">>)) :
        a \in {GoodAudience, "other"},
        i \in {Issuer(GoodDomain), Issuer("evil.example")},
        x \in ExpValues }

PermTokens == { Good(p) : p \in PermShapes }

KeyTokens ==
    { Jwt(k, sg, "RS256", GoodAudience, Issuer(GoodDomain), 2, PList(<<"get:actors">>)) :
        k \in {"k1", "k2", "kx"}, sg \in {"n1", "n2", "forged"} }
    \cup { Jwt("k1", "n1", "HS256", GoodAudience, Issuer(GoodDomain), 2,
               PList(<<"get:actors">>)) }

Tokens == ClaimTokens \cup PermTokens \cup KeyTokens

Headers ==
    { NoHeader, Header(<<>>), Header(<<SP>>), Header(<<SP, SP>>),
      Header(<<Word("Bearer")>>), Header(<<Word("Bearer"), SP>>),
      Header(<<Word("Token")>>),
      Header(<<Word("Token"), SP, Word("abc")>>),
      Header(<<Word("Basic"), SP, Good(PList(<<"get:actors">>))>>),
      Header(<<Word("Bearer"), SP, Word("abc")>>),
      Header(<<Word("Bearer"), SP, Word("a"), SP, Word("b")>>),
      Header(<<Word("Bearer"), SP, Good(PList(<<"get:actors">>)), SP, Word("b")>>),
      Header(<<Word("bearer"), SP, Good(PList(<<"get:actors">>))>>),
      Header(<<Word("BEARER"), SP, Good(PList(<<"get:actors">>))>>),
      Header(<<SP, Word("Bearer"), SP, SP, Good(PList(<<"get:actors">>)), SP>>) }
    \cup { Header(<<Word("Bearer"), SP, t>>) : t \in Tokens }

\* the permission an endpoint is wrapped with, and the URL arguments Flask
\* passes to its view function
Endpoints ==
    { [permission |-> "get:actors", args |-> <<>>, view |-> "get_actors", body |-> NoBody],
      [permission |-> "post:actors", args |-> <<>>, view |-> "create_actor", body |-> NoBody],
      [permission |-> "patch:actors", args |-> <<[name |-> "actor_id", value |-> 1]>>,
       view |-> "update_actor", body |-> NoBody],
      [permission |-> "", args |-> <<>>, view |-> "", body |-> NoBody] }

\* the inputs of the runs with several requests in flight
ConcHeaders ==
    { NoHeader,
      Header(<<Word("Bearer"), SP, Good(PList(<<"get:actors">>))>>),
      Header(<<Word("Bearer"), SP,
               Jwt("k2", "n2", "RS256", GoodAudience, Issuer(GoodDomain), 2,
                   PList(<<"get:actors">>))>>),
      Header(<<Word("Bearer"), SP,
               Jwt("kx", "n1", "RS256", GoodAudience, Issuer(GoodDomain), 2,
                   PList(<<"get:actors">>))>>) }

ConcEndpoints ==
    { [permission |-> "get:actors", args |-> <<>>, view |-> "get_actors", body |-> NoBody] }

\* the inputs of the runs on the store: no token, the token of a casting
\* assistant and the token of an executive producer, on every endpoint
AssistantPermissions == <<"get:actors", "get:movies">>

ProducerPermissions ==
    <<"get:actors", "get:movies", "post:actors", "patch:actors", "delete:actors",
      "post:movies", "patch:movies", "delete:movies">>

StoreHeaders ==
    { NoHeader,
      Header(<<Word("Bearer"), SP, Good(PList(AssistantPermissions))>>),
      Header(<<Word("Bearer"), SP, Good(PList(ProducerPermissions))>>) }

\* the ids of the URLs: those a table gives out, and one it never does
UrlIds == 1..(MaxId + 1)

ActorBodies ==
    { [NoBody EXCEPT !.name = <<"A">>, !.age = <<JNum(30)>>, !.gender = <<"f">>],
      [NoBody EXCEPT !.name = <<"A">>, !.age = <<JText>>, !.gender = <<"f">>],
      [NoBody EXCEPT !.name = <<"A">>],
      [NoBody EXCEPT !.name = <<"">>, !.age = <<JNum(30)>>, !.gender = <<"f">>],
      [NoBody EXCEPT !.age = <<JNum(30)>>, !.gender = <<"f">>] }

ActorPatches ==
    { NoBody,
      [NoBody EXCEPT !.name = <<"B">>],
      [NoBody EXCEPT !.name = <<"B">>, !.age = <<JText>>] }

GoodDate == DateStr(2021, 5, 6)
BadDate == DateStr(6, 5, 2021)

MovieBodies ==
    { [NoBody EXCEPT !.title = <<"T">>, !.release_date = <<GoodDate>>],
      [NoBody EXCEPT !.title = <<"T">>, !.release_date = <<BadDate>>],
      [NoBody EXCEPT !.title = <<"T">>, !.release_date = <<<<JText>>>>],
      [NoBody EXCEPT !.title = <<"T">>],
      [NoBody EXCEPT !.release_date = <<GoodDate>>] }

MoviePatches ==
    { NoBody,
      [NoBody EXCEPT !.title = <<"U">>],
      [NoBody EXCEPT !.release_date = <<BadDate>>],
      [NoBody EXCEPT !.title = <<"U">>, !.release_date = <<BadDate>>],
      [NoBody EXCEPT !.title = <<"U">>, !.release_date = <<GoodDate>>] }

IdArg(name, id) == <<[name |-> name, value |-> id]>>

StoreEndpoints ==
    { [permission |-> "get:actors", args |-> <<>>, view |-> "get_actors", body |-> NoBody],
      [permission |-> "get:movies", args |-> <<>>, view |-> "get_movies", body |-> NoBody] }
    \cup { [permission |-> "post:actors", args |-> <<>>, view |-> "create_actor", body |-> b] :
              b \in ActorBodies }
    \cup { [permission |-> "patch:actors", args |-> IdArg("actor_id", i),
            view |-> "update_actor", body |-> b] : i \in UrlIds, b \in ActorPatches }
    \cup { [permission |-> "delete:actors", args |-> IdArg("actor_id", i),
            view |-> "delete_actor", body |-> NoBody] : i \in UrlIds }
    \cup { [permission |-> "post:movies", args |-> <<>>, view |-> "create_movie", body |-> b] :
              b \in MovieBodies }
    \cup { [permission |-> "patch:movies", args |-> IdArg("movie_id", i),
            view |-> "update_movie", body |-> b] : i \in UrlIds, b \in MoviePatches }
    \cup { [permission |-> "delete:movies", args |-> IdArg("movie_id", i),
            view |-> "delete_movie", body |-> NoBody] : i \in UrlIds }

-----------------------------------------------------------------------------
(* State *)

NoOutcome == [kind |-> "none", code |-> "", description |-> "", status |-> 0, at |-> ""]

Ended(res, stage) ==
    [kind |-> res.kind, code |-> res.code, description |-> res.description,
     status |-> res.status, at |-> stage]

NoResponse == [success |-> FALSE, key |-> "", id |-> 0, items |-> <<>>]

Slots == DOMAIN pc

InitSlots(S) ==
    /\ now = 1
    /\ pc = [r \in S |-> "idle"]
    /\ auth = [r \in S |-> NoHeader]
    /\ permission = [r \in S |-> ""]
    /\ args = [r \in S |-> <<>>]
    /\ token = [r \in S |-> <<>>]
    /\ jwks = [r \in S |-> <<>>]
    /\ rsa_key = [r \in S |-> <<>>]
    /\ payload = [r \in S |-> <<>>]
    /\ vtime = [r \in S |-> 0]
    /\ outcome = [r \in S |-> NoOutcome]
    /\ calls = [r \in S |-> 0]
    /\ callargs = [r \in S |-> <<>>]
    /\ view = [r \in S |-> ""]
    /\ body = [r \in S |-> NoBody]
    /\ response = [r \in S |-> NoResponse]
    /\ actors = <<>>
    /\ movies = <<>>
    /\ actor_seq = 0
    /\ movie_seq = 0
    /\ actor_hwm = 0
    /\ movie_hwm = 0

Init ==
    /\ AUTH0_DOMAIN \in {"", GoodDomain}
    /\ API_AUDIENCE \in {"", GoodAudience}
    /\ dialect \in {"sqlite", "postgresql"}
    /\ InitSlots({1})

InitConc ==
    /\ AUTH0_DOMAIN = GoodDomain
    /\ API_AUDIENCE = GoodAudience
    /\ dialect = "postgresql"
    /\ InitSlots({1, 2, 3})

InitStore ==
    /\ AUTH0_DOMAIN = GoodDomain
    /\ API_AUDIENCE = GoodAudience
    /\ dialect \in {"sqlite", "postgresql"}
    /\ InitSlots({1})

globals == <<AUTH0_DOMAIN, API_AUDIENCE, now>>

store == <<dialect, actors, movies, actor_seq, movie_seq, actor_hwm, movie_hwm>>

-----------------------------------------------------------------------------
(* Actions *)

\* a request arrives at a protected endpoint: wrapper(*args, **kwargs) starts
RequestFrom(r, H, E) ==
    /\ pc[r] = "idle"
    /\ \E a \in H, ep \in E :
        /\ auth' = [auth EXCEPT ![r] = a]
        /\ permission' = [permission EXCEPT ![r] = ep.permission]
        /\ args' = [args EXCEPT ![r] = ep.args]
        /\ view' = [view EXCEPT ![r] = ep.view]
        /\ body' = [body EXCEPT ![r] = ep.body]
    /\ pc' = [pc EXCEPT ![r] = "extract"]
    /\ UNCHANGED <<globals, store, token, jwks, rsa_key, payload, vtime, outcome, calls,
                   callargs, response>>

Request(r) == RequestFrom(r, Headers, Endpoints)

RequestConc(r) == RequestFrom(r, ConcHeaders, ConcEndpoints)

RequestStore(r) == RequestFrom(r, StoreHeaders, StoreEndpoints)

\* token = get_token_auth_header()
ExtractToken(r) ==
    /\ pc[r] = "extract"
    /\ LET res == GetTokenAuthHeader(auth[r]) IN
       IF res.kind = "ok"
       THEN /\ token' = [token EXCEPT ![r] = res.val]
            /\ pc' = [pc EXCEPT ![r] = "verify"]
            /\ UNCHANGED outcome
       ELSE /\ outcome' = [outcome EXCEPT ![r] = Ended(res, "extract")]
            /\ pc' = [pc EXCEPT ![r] = "done"]
            /\ UNCHANGED token
    /\ UNCHANGED <<globals, store, view, body, response, auth, permission, args,
                   jwks, rsa_key, payload, vtime,
                   calls, callargs>>

\* verify_decode_jwt, up to the fetch of the key set
VerifyFetch(r) ==
    /\ pc[r] = "verify"
    /\ IF ConfigMissing
       THEN /\ outcome' = [outcome EXCEPT ![r] =
                  Ended(AuthError("configuration_error",
                        "Missing Auth0 config (AUTH0_DOMAIN / API_AUDIENCE).", 500), "verify")]
            /\ pc' = [pc EXCEPT ![r] = "done"]
            /\ UNCHANGED jwks
       ELSE \E f \in FetchResults :
            IF f.kind = "neterr"
            THEN /\ outcome' = [outcome EXCEPT ![r] = Ended(Raise("RequestException"), "verify")]
                 /\ pc' = [pc EXCEPT ![r] = "done"]
                 /\ UNCHANGED jwks
            ELSE IF f.kind = "notjson"
            THEN /\ outcome' = [outcome EXCEPT ![r] = Ended(Raise("JSONDecodeError"), "verify")]
                 /\ pc' = [pc EXCEPT ![r] = "done"]
                 /\ UNCHANGED jwks
            ELSE /\ jwks' = [jwks EXCEPT ![r] = <<f>>]
                 /\ pc' = [pc EXCEPT ![r] = "decode"]
                 /\ UNCHANGED outcome
    /\ UNCHANGED <<globals, store, view, body, response, auth, permission, args,
                   token, rsa_key, payload, vtime,
                   calls, callargs>>

\* mutant: rsa_key is shared by the requests and not reset, so that a scan
\* that matches nothing leaves the key of another request in place
MatchedKeyShared(r) ==
    LET own == FindKey(jwks[r][1].keys, token[r][1].jwt[1].kid)
        others == {q \in Slots \ {r} : rsa_key[q] # <<>>}
    IN  IF own = <<>> /\ others # {}
        THEN rsa_key[CHOOSE q \in others : TRUE]
        ELSE own

\* the key of the fetched set that the scan of verify_decode_jwt selects
MatchedKey(r) == FindKey(jwks[r][1].keys, token[r][1].jwt[1].kid)

\* verify_decode_jwt, from get_unverified_header to its return
VerifyResult(r) ==
    IF token[r][1].jwt = <<>> THEN Raise("JWTError")
    ELSE IF jwks[r][1].kind = "notdict" THEN Raise("AttributeError")
    ELSE IF MatchedKey(r) = <<>>
    THEN AuthError("invalid_header", "Unable to find the appropriate key.", 401)
    ELSE DecodeOrAuthError(token[r][1], MatchedKey(r)[1], now)

VerifyDecode(r) ==
    /\ pc[r] = "decode"
    /\ LET res == VerifyResult(r) IN
       /\ rsa_key' = [rsa_key EXCEPT ![r] =
              IF res.kind = "Exception" THEN <<>> ELSE MatchedKey(r)]
       /\ vtime' = [vtime EXCEPT ![r] = now]
       /\ IF res.kind = "ok"
          THEN /\ payload' = [payload EXCEPT ![r] = res.val]
               /\ pc' = [pc EXCEPT ![r] = "check"]
               /\ UNCHANGED outcome
          ELSE /\ outcome' = [outcome EXCEPT ![r] = Ended(res, "verify")]
               /\ pc' = [pc EXCEPT ![r] = "done"]
               /\ UNCHANGED payload
    /\ UNCHANGED <<globals, store, view, body, response, auth, permission, args,
                   token, jwks, calls, callargs>>

\* check_permissions(permission, payload)
CheckPermission(r) ==
    /\ pc[r] = "check"
    /\ LET res == CheckPermissions(permission[r], payload[r][1]) IN
       IF res.kind = "ok"
       THEN /\ pc' = [pc EXCEPT ![r] = "call"]
            /\ UNCHANGED outcome
       ELSE /\ outcome' = [outcome EXCEPT ![r] = Ended(res, "check")]
            /\ pc' = [pc EXCEPT ![r] = "done"]
    /\ UNCHANGED <<globals, store, view, body, response, auth, permission, args,
                   token, jwks, rsa_key, payload,
                   vtime, calls, callargs>>

\* mutant: the payload is passed last
CallArgumentsPayloadLast(r) == args[r] \o <<payload[r][1]>>

\* the arguments of f(payload, *args, **kwargs)
CallArguments(r) == <<payload[r][1]>> \o args[r]

\* the id of the URL of the request
UrlId(r) == args[r][1].value

\* f: the view function the endpoint was defined with
View(r) ==
    CASE view[r] = "get_actors" -> GetRows("actors", actors, actor_seq)
      [] view[r] = "create_actor" -> CreateActor(dialect, actors, actor_seq, body[r])
      [] view[r] = "update_actor" -> UpdateActor(actors, actor_seq, UrlId(r), body[r])
      [] view[r] = "delete_actor" -> DeleteRow(actors, actor_seq, UrlId(r))
      [] view[r] = "get_movies" -> GetRows("movies", movies, movie_seq)
      [] view[r] = "create_movie" -> CreateMovie(dialect, movies, movie_seq, body[r])
      [] view[r] = "update_movie" -> UpdateMovie(movies, movie_seq, UrlId(r), body[r])
      [] view[r] = "delete_movie" -> DeleteRow(movies, movie_seq, UrlId(r))
      [] OTHER -> Answer(200, "", 0, <<>>, <<>>, 0)

OnActors(r) == view[r] \in {"get_actors", "create_actor", "update_actor", "delete_actor"}
OnMovies(r) == view[r] \in {"get_movies", "create_movie", "update_movie", "delete_movie"}

\* how a call of the view function ends: it returned a response (of any
\* status), or an exception left it
Returned(res) ==
    IF res.raised THEN Raise("ValueError")
    ELSE [kind |-> "ok", code |-> "", description |-> "", status |-> res.status, val |-> <<>>]

\* return f(payload, *args, **kwargs)
CallEndpoint(r) ==
    /\ pc[r] = "call"
    /\ LET res == View(r) IN
       /\ DOMAIN res.table \subseteq 1..MaxId
       /\ calls' = [calls EXCEPT ![r] = @ + 1]
       /\ callargs' = [callargs EXCEPT ![r] = CallArguments(r)]
       /\ outcome' = [outcome EXCEPT ![r] = Ended(Returned(res), "call")]
       /\ response' = [response EXCEPT ![r] = res.json]
       /\ actors' = IF OnActors(r) THEN res.table ELSE actors
       /\ actor_seq' = IF OnActors(r) THEN res.seq ELSE actor_seq
       /\ movies' = IF OnMovies(r) THEN res.table ELSE movies
       /\ movie_seq' = IF OnMovies(r) THEN res.seq ELSE movie_seq
       /\ actor_hwm' = IF OnActors(r) THEN Largest(DOMAIN res.table \cup {actor_hwm})
                       ELSE actor_hwm
       /\ movie_hwm' = IF OnMovies(r) THEN Largest(DOMAIN res.table \cup {movie_hwm})
                       ELSE movie_hwm
    /\ pc' = [pc EXCEPT ![r] = "done"]
    /\ UNCHANGED <<globals, dialect, view, body, auth, permission, args, token, jwks,
                   rsa_key, payload, vtime>>

\* the response is sent; nothing of the request is kept
Respond(r) ==
    /\ pc[r] = "done"
    /\ pc' = [pc EXCEPT ![r] = "idle"]
    /\ auth' = [auth EXCEPT ![r] = NoHeader]
    /\ permission' = [permission EXCEPT ![r] = ""]
    /\ args' = [args EXCEPT ![r] = <<>>]
    /\ token' = [token EXCEPT ![r] = <<>>]
    /\ jwks' = [jwks EXCEPT ![r] = <<>>]
    /\ rsa_key' = [rsa_key EXCEPT ![r] = <<>>]
    /\ payload' = [payload EXCEPT ![r] = <<>>]
    /\ vtime' = [vtime EXCEPT ![r] = 0]
    /\ outcome' = [outcome EXCEPT ![r] = NoOutcome]
    /\ calls' = [calls EXCEPT ![r] = 0]
    /\ callargs' = [callargs EXCEPT ![r] = <<>>]
    /\ view' = [view EXCEPT ![r] = ""]
    /\ body' = [body EXCEPT ![r] = NoBody]
    /\ response' = [response EXCEPT ![r] = NoResponse]
    /\ UNCHANGED <<globals, store>>

\* time passes
Tick ==
    /\ now < MaxTime
    /\ now' = now + 1
    /\ UNCHANGED <<AUTH0_DOMAIN, API_AUDIENCE, pc, auth, permission, args, token, jwks,
                   rsa_key, payload, vtime, outcome, calls, callargs, view, body,
                   response, store>>

Next ==
    \/ Tick
    \/ \E r \in Slots : Request(r)
    \/ \E r \in Slots : ExtractToken(r)
    \/ \E r \in Slots : VerifyFetch(r)
    \/ \E r \in Slots : VerifyDecode(r)
    \/ \E r \in Slots : CheckPermission(r)
    \/ \E r \in Slots : CallEndpoint(r)
    \/ \E r \in Slots : Respond(r)

NextConc ==
    \/ Tick
    \/ \E r \in Slots : RequestConc(r)
    \/ \E r \in Slots : ExtractToken(r)
    \/ \E r \in Slots : VerifyFetch(r)
    \/ \E r \in Slots : VerifyDecode(r)
    \/ \E r \in Slots : CheckPermission(r)
    \/ \E r \in Slots : CallEndpoint(r)
    \/ \E r \in Slots : Respond(r)

\* the runs on the store: one request after the other, at one time
NextStore ==
    \/ \E r \in Slots : RequestStore(r)
    \/ \E r \in Slots : ExtractToken(r)
    \/ \E r \in Slots : VerifyFetch(r)
    \/ \E r \in Slots : VerifyDecode(r)
    \/ \E r \in Slots : CheckPermission(r)
    \/ \E r \in Slots : CallEndpoint(r)
    \/ \E r \in Slots : Respond(r)

Spec == Init /\ [][Next]_vars

SpecStore == InitStore /\ [][NextStore]_vars

SpecConc == InitConc /\ [][NextConc]_vars

-----------------------------------------------------------------------------
(* Properties *)

\* the decoded content of the token of slot r
TokenJwt(r) == token[r][1].jwt[1]

\* the token of slot r is signed, under an allowed algorithm, by the key that
\* the published key set holds under the token's key-id
ValidlySigned(r) ==
    /\ token[r] # <<>>
    /\ token[r][1].jwt # <<>>
    /\ TokenJwt(r).alg \in ALGORITHMS
    /\ \E i \in 1..Len(RemoteKeys) :
          /\ RemoteKeys[i].kid = TokenJwt(r).kid
          /\ RemoteKeys[i].n = TokenJwt(r).sig

ClaimsMatch(r) ==
    /\ TokenJwt(r).claims.aud = API_AUDIENCE
    /\ TokenJwt(r).claims.iss = Issuer(AUTH0_DOMAIN)

\* the permissions of a payload that holds a list or no entry
Granted(pl) == Range(pl.permissions.val)

ListOrAbsent(pl) == pl.permissions.kind \in {"list", "absent"}

EndedWith(r, stage, code, status) ==
    /\ pc[r] = "done"
    /\ outcome[r].kind = "AuthError"
    /\ outcome[r].at = stage
    /\ outcome[r].code = code
    /\ outcome[r].status = status

\* C1: the endpoint function is about to run or has run only for a token
\* that is validly signed, carries the configured issuer and audience, was
\* not past expiry when it was verified, and whose permissions list holds
\* the permission the endpoint requires.
C1_InvokedOnlyIfVerifiedAndPermitted ==
    \A r \in Slots :
        (pc[r] = "call" \/ calls[r] > 0) =>
            /\ ValidlySigned(r)
            /\ ClaimsMatch(r)
            /\ TokenJwt(r).claims.exp >= vtime[r]
            /\ vtime[r] > 0
            /\ TokenJwt(r).claims.permissions.kind = "list"
            /\ permission[r] \in Range(TokenJwt(r).claims.permissions.val)

C1_Witness ==
    \E r \in Slots : calls[r] = 1 /\ permission[r] = "patch:actors"

\* C2: with a verified payload whose permissions are a list (or absent), a
\* required permission outside the list ends the request with
\* unauthorized/403 and no call; a required permission in the list lets the
\* gate pass and the endpoint function runs exactly once, with the payload
\* first and the original arguments after it.
C2_PermissionDecidesTheCall ==
    \A r \in Slots :
        (payload[r] # <<>> /\ ListOrAbsent(payload[r][1]) /\ pc[r] # "check") =>
            IF permission[r] \in Granted(payload[r][1])
            THEN /\ pc[r] \in {"call", "done"}
                 /\ pc[r] = "call" => calls[r] = 0 /\ outcome[r] = NoOutcome
                 /\ pc[r] = "done" =>
                        /\ outcome[r].kind = "ok"
                        /\ calls[r] = 1
                        /\ callargs[r] = <<payload[r][1]>> \o args[r]
            ELSE /\ EndedWith(r, "check", "unauthorized", 403)
                 /\ calls[r] = 0
                 /\ callargs[r] = <<>>

C2_Witness ==
    \E r \in Slots :
        /\ pc[r] = "done"
        /\ calls[r] = 1
        /\ args[r] # <<>>
        /\ callargs[r] = <<payload[r][1]>> \o args[r]

\* C3: a request without an Authorization header ends with
\* authorization_header_missing/401, before a token is extracted, a key set
\* fetched or the endpoint function called.
C3_MissingHeader ==
    \A r \in Slots :
        (~auth[r].present /\ pc[r] \notin {"idle", "extract"}) =>
            /\ EndedWith(r, "extract", "authorization_header_missing", 401)
            /\ token[r] = <<>>
            /\ jwks[r] = <<>>
            /\ payload[r] = <<>>
            /\ calls[r] = 0

C3_Witness ==
    \E r \in Slots :
        /\ ~auth[r].present
        /\ permission[r] = "post:actors"
        /\ EndedWith(r, "extract", "authorization_header_missing", 401)

\* the header is not "<bearer> <token>": its first word is not bearer, or it
\* has not exactly two words
Malformed(a) ==
    LET parts == Split(a.val) IN
    \/ Len(parts) # 2
    \/ Lower(parts[1]) # "bearer"

\* C4: a header that is present and not empty, and whose first word is not
\* bearer or which has not exactly two words (a header of whitespace only
\* included), ends the request with invalid_header/401 before verification:
\* no key set is fetched and the endpoint function is not called.
C4_MalformedHeaderIsInvalidHeader ==
    \A r \in Slots :
        (auth[r].present /\ auth[r].val # <<>> /\ Malformed(auth[r])
         /\ pc[r] \notin {"idle", "extract"}) =>
            /\ EndedWith(r, "extract", "invalid_header", 401)
            /\ jwks[r] = <<>>
            /\ calls[r] = 0

\* C5: when the required permission is the empty string, a verified payload
\* whose permissions are a list or absent passes check_permissions, and the
\* endpoint function is called.
C5_EmptyPermissionAlwaysPasses ==
    \A r \in Slots :
        (permission[r] = "" /\ payload[r] # <<>> /\ ListOrAbsent(payload[r][1])
         /\ pc[r] = "done") =>
            /\ outcome[r].kind = "ok"
            /\ calls[r] = 1

ErrorTable ==
    { <<"authorization_header_missing", 401>>, <<"invalid_header", 401>>,
      <<"invalid_claims", 400>>, <<"invalid_claims", 401>>, <<"unauthorized", 403>>,
      <<"token_expired", 401>>, <<"invalid_token", 401>>, <<"configuration_error", 500>> }

\* C6: a request that ends without the endpoint function having returned
\* ends with an AuthError whose code and status are a row of the error
\* table, and its endpoint function did not run.
C6_EveryFailureIsAnAuthError ==
    \A r \in Slots :
        (pc[r] = "done" /\ outcome[r].kind # "ok") =>
            /\ outcome[r].kind = "AuthError"
            /\ <<outcome[r].code, outcome[r].status>> \in ErrorTable
            /\ calls[r] = 0

\* C7: for a required permission that is not empty and a verified payload,
\* no permissions entry or an empty list ends with unauthorized/403, and an
\* entry that is not a list ends with invalid_claims/400 even when it holds
\* the required permission: the test for a list comes first.
C7_PermissionsClaimShapes ==
    \A r \in Slots :
        (permission[r] # "" /\ payload[r] # <<>> /\ pc[r] # "check") =>
            LET p == payload[r][1].permissions IN
            /\ (p.kind = "absent" \/ (p.kind = "list" /\ p.val = <<>>)) =>
                   EndedWith(r, "check", "unauthorized", 403) /\ calls[r] = 0
            /\ p.kind \notin {"absent", "list"} =>
                   EndedWith(r, "check", "invalid_claims", 400) /\ calls[r] = 0

C7_Witness ==
    \E r \in Slots :
        /\ payload[r] # <<>>
        /\ payload[r][1].permissions = PStr("get:actors")
        /\ permission[r] = "get:actors"
        /\ EndedWith(r, "check", "invalid_claims", 400)

\* C8: with the issuer domain or the audience not configured, every request
\* whose token was extracted ends at verify_decode_jwt with
\* configuration_error/500, whatever the token is; no key set is fetched
\* and the endpoint function is not called.
C8_ConfigurationError ==
    \A r \in Slots :
        ((AUTH0_DOMAIN = "" \/ API_AUDIENCE = "") /\ token[r] # <<>> /\ pc[r] # "verify") =>
            /\ EndedWith(r, "verify", "configuration_error", 500)
            /\ jwks[r] = <<>>
            /\ rsa_key[r] = <<>>
            /\ payload[r] = <<>>
            /\ calls[r] = 0

C8_Witness ==
    \E r \in Slots :
        /\ AUTH0_DOMAIN # ""
        /\ API_AUDIENCE = ""
        /\ token[r] # <<>>
        /\ token[r][1].jwt = <<>>
        /\ EndedWith(r, "verify", "configuration_error", 500)

\* slot r has run jwt.decode on a validly signed token whose audience or
\* issuer is not the configured one, with the published key set
MismatchDecoded(r) ==
    /\ pc[r] \notin {"idle", "extract", "verify", "decode"}
    /\ ValidlySigned(r)
    /\ jwks[r] = <<[kind |-> "dict", keys |-> RemoteKeys]>>
    /\ ~ClaimsMatch(r)

\* C9 as stated: a validly signed token with a wrong audience or issuer ends
\* with invalid_claims/401, past expiry or not.
C9_MismatchIsInvalidClaims ==
    \A r \in Slots :
        MismatchDecoded(r) => EndedWith(r, "verify", "invalid_claims", 401)

\* C9 amended: a validly signed token with a wrong audience or issuer ends
\* with status 401; the code is invalid_claims when the token is not past
\* expiry and token_expired when it is (expiry is checked first).
C9_MismatchIs401 ==
    \A r \in Slots :
        MismatchDecoded(r) =>
            IF TokenJwt(r).claims.exp < vtime[r]
            THEN EndedWith(r, "verify", "token_expired", 401)
            ELSE EndedWith(r, "verify", "invalid_claims", 401)

C9_Witness ==
    \E r \in Slots :
        /\ MismatchDecoded(r)
        /\ TokenJwt(r).claims.exp >= vtime[r]
        /\ TokenJwt(r).claims.aud # API_AUDIENCE
        /\ EndedWith(r, "verify", "invalid_claims", 401)

\* C10: when a token has been verified with success in one slot, every other
\* slot that has verified the same token against the same fetched key set
\* while the token was not past expiry holds the same payload, whatever the
\* other slots have done or are doing.
C10_VerificationIsIndependent ==
    \A r1, r2 \in Slots :
        (/\ payload[r1] # <<>>
         /\ token[r2] = token[r1]
         /\ jwks[r2] = jwks[r1]
         /\ vtime[r2] > 0
         /\ TokenJwt(r1).claims.exp >= vtime[r2]) =>
            payload[r2] = payload[r1]

C10_Witness ==
    \E r1, r2, r3 \in Slots :
        /\ r1 # r2
        /\ payload[r1] # <<>>
        /\ payload[r2] = payload[r1]
        /\ token[r2] = token[r1]
        /\ vtime[r2] > vtime[r1]
        /\ pc[r3] = "done"
        /\ outcome[r3].kind = "AuthError"
        /\ outcome[r3].code = "invalid_header"
        /\ outcome[r3].at = "verify"

\* slot r runs its view function in this step
Calls(r) == pc[r] = "call" /\ pc'[r] = "done"

\* C11: the tables change only in a step in which a view function returns a
\* status below 400; a request that ends with an error status (401 or 403
\* of the gate, 400 or 404 of a view function, 500 of an exception) has
\* left every row and every field as it was.
C11_ErrorLeavesStoreUnchanged ==
    [][/\ \A r \in Slots :
            (pc[r] # "done" /\ pc'[r] = "done" /\ outcome'[r].status >= 400) =>
                (actors' = actors /\ movies' = movies)
       /\ (actors' # actors \/ movies' # movies) =>
            \E r \in Slots : Calls(r) /\ outcome'[r].status < 400]_vars

C11_Witness ==
    \E r \in Slots :
        /\ pc[r] = "done"
        /\ view[r] = "update_movie"
        /\ outcome[r].at = "call"
        /\ outcome[r].status = 400
        /\ body[r].title = <<"U">>
        /\ body[r].release_date = <<BadDate>>
        /\ UrlId(r) \in DOMAIN movies
        /\ movies[UrlId(r)].title = "T"

\* the rows of t other than id are the rows of t2 other than id
SameButFor(t, t2, id) ==
    /\ DOMAIN t \ {id} = DOMAIN t2 \ {id}
    /\ \A i \in DOMAIN t \ {id} : t2[i] = t[i]

\* what C12 says of one call on a table: t before, t2 after
StepOnTable(r, t, t2, create, update, delete, get) ==
    LET st == outcome'[r].status
        js == response'[r]
    IN  /\ (view[r] = create /\ st = 201) =>
              /\ js.key = "created"
              /\ js.id \notin DOMAIN t
              /\ js.id \in DOMAIN t2
              /\ SameButFor(t, t2, js.id)
              /\ js.items = <<[id |-> js.id, row |-> t2[js.id]]>>
        /\ (view[r] = delete /\ UrlId(r) \in DOMAIN t) =>
              /\ st = 200
              /\ js.key = "deleted"
              /\ js.id = UrlId(r)
              /\ UrlId(r) \notin DOMAIN t2
              /\ SameButFor(t, t2, UrlId(r))
        /\ (view[r] \in {update, delete} /\ UrlId(r) \notin DOMAIN t) =>
              /\ st = 404
              /\ t2 = t
        /\ view[r] = get =>
              /\ st = 200
              /\ {js.items[i].id : i \in 1..Len(js.items)} = DOMAIN t
              /\ t2 = t

StepOnStore(r) ==
    /\ StepOnTable(r, actors, actors', "create_actor", "update_actor", "delete_actor",
                   "get_actors")
    /\ StepOnTable(r, movies, movies', "create_movie", "update_movie", "delete_movie",
                   "get_movies")
    /\ (view[r] = "create_actor" /\ Truthy(body[r], "name") /\ Truthy(body[r], "gender")
        /\ Has(body[r], "age") /\ body[r].age[1].num) => outcome'[r].status = 201
    /\ (view[r] = "create_movie" /\ Truthy(body[r], "title")
        /\ body[r].release_date = <<GoodDate>>) => outcome'[r].status = 201

\* an id that a table has given out and that is not stored (its row was
\* deleted) is not stored after the step either
DeletedStaysDeleted ==
    /\ \A i \in 1..actor_hwm : i \notin DOMAIN actors => i \notin DOMAIN actors'
    /\ \A i \in 1..movie_hwm : i \notin DOMAIN movies => i \notin DOMAIN movies'

\* C12 as stated: POST answers 201 with the id of the new row and of no
\* other, DELETE of a stored id answers 200 with that id and removes that
\* row only, PATCH and DELETE of an id that is not stored answer 404 and GET
\* does not list it; and the id of a deleted row is never stored again, so
\* that this holds of it in every later request.
C12_DeletedIdIsGoneForGood ==
    [][(\A r \in Slots : Calls(r) => StepOnStore(r)) /\ DeletedStaysDeleted]_vars

\* C12 amended: the same, for the ids that are not stored when the request
\* is made; a later POST may store a new row under the id of a deleted one.
C12_CreateDeleteNotFound ==
    [][\A r \in Slots : Calls(r) => StepOnStore(r)]_vars

C12_Witness ==
    \E r \in Slots :
        /\ pc[r] = "done"
        /\ view[r] = "delete_actor"
        /\ outcome[r].status = 200
        /\ response[r].id = UrlId(r)
        /\ UrlId(r) = 1
        /\ DOMAIN actors = {2}
        /\ actor_hwm = 2

====
